---- MODULE Spec2Model ----
(***************************************************************************)
(* Model of eli5/formatters/html.py: the weighted-span highlighter         *)
(* (render_weighted_spans, _colorize, _weight_opacity, _weight_color),     *)
(* _remaining_weight_color, the feature label formatter and                *)
(* _get_top_target.                                                        *)
(*                                                                         *)
(* Numbers: Python floats are modelled by exact rationals <<n, d>> with    *)
(* d > 0 in lowest terms, so rounding errors of the float arithmetic are   *)
(* not part of the model.  Texts are sequences of one-character strings.   *)
(* A None argument is the string "None", a missing number the empty tuple, *)
(* a None return value the record [kind |-> "None"].  Positions in the     *)
(* document are 0-based as in the source; TLA+ sequences are 1-based, so   *)
(* the character at position p is element p + 1.                           *)
(***************************************************************************)
EXTENDS Integers, Sequences, FiniteSets, TLC

VARIABLES
    call,              \* the entry point this behaviour exercises
    pc,                \* position inside the call
    doc,               \* weighted_spans_data.document
    analyzer,          \* weighted_spans_data.analyzer
    weighted_spans,    \* weighted_spans_data.weighted_spans
    preserve_density,  \* the preserve_density argument, then its resolved value
    char_weights,      \* render_weighted_spans: char_weights
    feature_counts,    \* render_weighted_spans: feature_counts
    k,                 \* number of executions of the inner loop body so far
    weight,            \* render_weighted_spans: the loop variable `weight`
    weight_range,      \* weight_range (local of render_weighted_spans, argument elsewhere)
    ws,                \* _remaining_weight_color: ws
    pos_neg,           \* _remaining_weight_color: pos_neg
    targets,           \* _get_top_target: targets
    feature,           \* _format_feature: feature
    fweight,           \* _format_feature: weight
    hl_spaces,         \* _format_feature: hl_spaces
    result,            \* the value returned by the call, [kind |-> "None"] before
    error              \* the exception that ended the call, "none" if none

vars == <<call, pc, doc, analyzer, weighted_spans, preserve_density, char_weights,
          feature_counts, k, weight, weight_range, ws, pos_neg, targets, feature,
          fweight, hl_spaces, result, error>>

----------------------------------------------------------------------------
(* Bounds of the model *)

MaxDocLen == 2
MaxSize == 4
MaxWs == 2
MaxTargets == 3
MaxNameLen == 2
MaxCands == 2

----------------------------------------------------------------------------
(* Exact rational arithmetic standing for Python float arithmetic *)

None == "None"

Abs(x) == IF x < 0 THEN -x ELSE x

RECURSIVE GCD(_, _)
GCD(a, b) == IF b = 0 THEN a ELSE GCD(b, a % b)

Norm(n, d) ==
    LET g == GCD(Abs(n), Abs(d))
        s == IF d < 0 THEN -1 ELSE 1
    IN  <<s * (n \div g), s * (d \div g)>>

Q(n) == <<n, 1>>
Zero == Q(0)

AddQ(a, b) ==
    LET l == (a[2] \div GCD(a[2], b[2])) * b[2]
    IN  Norm(a[1] * (l \div a[2]) + b[1] * (l \div b[2]), l)

\* a / n for an integer n /= 0
DivInt(a, n) == Norm(a[1], a[2] * n)

\* a / b for a rational b /= 0
DivQ(a, b) == Norm(a[1] * b[2], a[2] * b[1])

MulQ(a, b) == Norm(a[1] * b[1], a[2] * b[2])

SubQ(a, b) == AddQ(a, <<-b[1], b[2]>>)

AbsQ(a) == <<Abs(a[1]), a[2]>>

LtQ(a, b) == a[1] * b[2] < b[1] * a[2]

LeQ(a, b) == a[1] * b[2] <= b[1] * a[2]

\* round(a * scale) to the nearest integer, ties to even, as '{:.Nf}' rounds
RoundScaled(a, scale) ==
    LET n == a[1] * scale
        fl == n \div a[2]
        r2 == 2 * (n - fl * a[2])
    IN  IF r2 < a[2] THEN fl
        ELSE IF r2 > a[2] THEN fl + 1
        ELSE IF fl % 2 = 0 THEN fl ELSE fl + 1

----------------------------------------------------------------------------
(* html_escape: cgi.escape(text, quote=True) replaces, in this order,      *)
(* "&", "<", ">" and then the double quote, each over the whole text.      *)

RECURSIVE Replace(_, _, _)
Replace(text, c, by) ==
    IF text = <<>> THEN <<>>
    ELSE (IF Head(text) = c THEN by ELSE <<Head(text)>>) \o Replace(Tail(text), c, by)

Amp == <<"&", "a", "m", "p", ";">>
Lt == <<"&", "l", "t", ";">>
Gt == <<"&", "g", "t", ";">>
Quot == <<"&", "q", "u", "o", "t", ";">>

\* cgi.escape(text) without quote=True: the double quote is left alone
html_escape_noquote(text) ==
    Replace(Replace(Replace(text, "&", Amp), "<", Lt), ">", Gt)

html_escape(text) ==
    Replace(Replace(Replace(Replace(text, "&", Amp), "<", Lt), ">", Gt), "\"", Quot)

----------------------------------------------------------------------------
(* Colour mapping *)

\* abs(weight) / weight_range.  With numpy floats a zero weight_range gives
\* nan (0/0) or inf (x/0) and a RuntimeWarning instead of a number.
RelWeight(w, wr) ==
    IF wr # Zero THEN [kind |-> "num", val |-> DivQ(AbsQ(w), wr)]
    ELSE IF w = Zero THEN [kind |-> "nan", val |-> Zero]
    ELSE [kind |-> "inf", val |-> Zero]

\* _hue with the two hues exchanged
_hue_flipped(w) == IF w[1] > 0 THEN 0 ELSE 120

_hue(w) == IF w[1] > 0 THEN 120 ELSE 0

min_opacity == <<4, 5>>

\* _weight_opacity without the division by weight_range
_weight_opacity_nodiv(w, wr) ==
    [kind |-> "num",
     val |-> RoundScaled(AddQ(min_opacity, MulQ(SubQ(Q(1), min_opacity), AbsQ(w))), 100)]

\* min_opacity + (1 - min_opacity) * rel_weight, formatted '{:.2f}': the
\* formatted value is kept as a number of hundredths.
_weight_opacity(w, wr) ==
    LET rel_weight == RelWeight(w, wr)
    IN  IF rel_weight.kind = "num"
        THEN [kind |-> "num",
              val |-> RoundScaled(AddQ(min_opacity,
                          MulQ(SubQ(Q(1), min_opacity), rel_weight.val)), 100)]
        ELSE [kind |-> rel_weight.kind, val |-> 0]

\* 'hsl(hue, 100%, lightness)' with lightness = 1 - (1 - min_lightness) * rel ** 0.7.
\* rel ** 0.7 is irrational in general: the colour keeps rel (abs(weight) /
\* weight_range) and min_lightness, which determine the lightness.
_weight_color(w, wr, min_lightness) ==
    [hue |-> _hue(w), saturation |-> 100, rel |-> RelWeight(w, wr),
     min_lightness |-> min_lightness]

\* np.isclose(weight, 0.): abs(weight - 0.) <= atol + rtol * abs(0.), with
\* numpy's default atol = 1e-8 = 1 / ATolInv
ATolInv == 100000000

IsCloseToZero(w) == Abs(w[1]) <= w[2] \div ATolInv

\* _colorize: the <span> wrapped around one escaped token; style is the list
\* of the style attribute's declarations, attrs the other attributes.
_colorize(token, w, wr) ==
    IF IsCloseToZero(w)
    THEN [kind |-> "span",
          style |-> << <<"opacity", _weight_opacity(w, wr)>> >>,
          attrs |-> <<>>,
          token |-> html_escape(<<token>>)]
    ELSE [kind |-> "span",
          style |-> << <<"background-color", _weight_color(w, wr, <<3, 5>>)>>,
                       <<"opacity", _weight_opacity(w, wr)>> >>,
          attrs |-> << <<"title", RoundScaled(w, 1000)>> >>,
          token |-> html_escape(<<token>>)]

----------------------------------------------------------------------------
(* Inputs of render_weighted_spans *)

PyTrue == "True"
PyFalse == "False"

DocPattern == <<"\"", "<", "&", "a", ">", "b">>

\* the document of length n
DocOfLen(n) == [p \in 1..n |-> DocPattern[((p - 1) % Len(DocPattern)) + 1]]

Features == {"f", "g"}
Weights == {Q(2), Q(-1)}

\* (start, end) with 0 <= start < end <= n
Ranges(n) == {r \in (0..n) \X (0..n) : r[1] < r[2]}

SeqsOfLen(S, l) == [1..l -> S]

\* a WeightedSpan (feature, spans, weight) with at most m ranges
WeightedSpansUpTo(n, m) ==
    UNION {Features \X SeqsOfLen(Ranges(n), l) \X Weights : l \in 0..m}

\* the lists of WeightedSpans whose number of spans plus number of ranges is
\* at most size
RECURSIVE SpanLists(_, _)
SpanLists(n, size) ==
    IF size <= 0 THEN {<<>>}
    ELSE {<<>>} \cup
         UNION {{<<sp>> \o rest : rest \in SpanLists(n, size - 1 - Len(sp[2]))}
                    : sp \in WeightedSpansUpTo(n, size - 1)}

CharAnalyzer == <<"c", "h", "a", "r">>
CharWbAnalyzer == <<"c", "h", "a", "r", "_", "w", "b">>
WordAnalyzer == <<"w", "o", "r", "d">>

\* (preserve_density argument, analyzer)
DensityInputs ==
    {<<None, CharWbAnalyzer>>, <<None, WordAnalyzer>>,
     <<PyTrue, WordAnalyzer>>, <<PyFalse, CharAnalyzer>>}

----------------------------------------------------------------------------
(* render_weighted_spans *)

startswith(str, prefix) ==
    Len(str) >= Len(prefix) /\ SubSeq(str, 1, Len(prefix)) = prefix

\* Counter(f for f, _, _ in weighted_spans)
Counter(spans) ==
    [f \in {spans[i][1] : i \in DOMAIN spans} |->
        Cardinality({i \in DOMAIN spans : spans[i][1] = f})]

\* The executions of the inner loop body, in order: <<i, j>> is range j of
\* weighted span i.
RECURSIVE Iterations(_, _)
Iterations(spans, i) ==
    IF i > Len(spans) THEN <<>>
    ELSE [j \in 1..Len(spans[i][2]) |-> <<i, j>>] \o Iterations(spans, i + 1)

\* char_weights[start:end] += w
AddSlice(cw, start, end, w) ==
    [p \in DOMAIN cw |-> IF start < p /\ p <= end THEN AddQ(cw[p], w) ELSE cw[p]]

\* max(abs(x) for x in char_weights), for a non-empty char_weights
RECURSIVE MaxAbs(_)
MaxAbs(cw) ==
    IF Len(cw) = 1 THEN AbsQ(cw[1])
    ELSE LET m == MaxAbs(Tail(cw))
         IN  IF LtQ(AbsQ(cw[1]), m) THEN m ELSE AbsQ(cw[1])

\* lines 93-98
RenderBegin ==
    /\ call = "render_weighted_spans"
    /\ pc = "call"
    /\ preserve_density' =
           IF preserve_density = None
           THEN (IF startswith(analyzer, CharAnalyzer) THEN PyTrue ELSE PyFalse)
           ELSE preserve_density
    /\ char_weights' = [p \in 1..Len(doc) |-> Zero]
    /\ feature_counts' = Counter(weighted_spans)
    /\ k' = 0
    /\ pc' = "loop"
    /\ UNCHANGED <<call, doc, analyzer, weighted_spans, weight, weight_range, ws,
                   pos_neg, targets, feature, fweight, hl_spaces, result, error>>

\* The loop variable as the inner loop body finds it: the outer for statement
\* binds weight to the span's weight once per WeightedSpan, the body of the
\* inner loop then reassigns it (weight /= ...).
WeightAtEntry(i, j) == IF j = 1 THEN weighted_spans[i][3] ELSE weight

\* lines 100-104: one execution of the inner loop body
RenderRange ==
    /\ call = "render_weighted_spans"
    /\ pc = "loop"
    /\ k < Len(Iterations(weighted_spans, 1))
    /\ LET it == Iterations(weighted_spans, 1)[k + 1]
           i == it[1]
           j == it[2]
           start == weighted_spans[i][2][j][1]
           end == weighted_spans[i][2][j][2]
           w0 == WeightAtEntry(i, j)
           w1 == IF preserve_density = PyTrue THEN DivInt(w0, end - start) ELSE w0
           w2 == DivInt(w1, feature_counts[weighted_spans[i][1]])
       IN  /\ weight' = w2
           /\ char_weights' = AddSlice(char_weights, start, end, w2)
    /\ k' = k + 1
    /\ UNCHANGED <<call, pc, doc, analyzer, weighted_spans, preserve_density,
                   feature_counts, weight_range, ws, pos_neg, targets, feature,
                   fweight, hl_spaces, result, error>>

\* lines 107-109: max() of an empty sequence raises ValueError
RenderReturn ==
    /\ call = "render_weighted_spans"
    /\ pc = "loop"
    /\ k = Len(Iterations(weighted_spans, 1))
    /\ IF Len(char_weights) = 0
       THEN /\ error' = "ValueError"
            /\ pc' = "raised"
            /\ UNCHANGED <<weight_range, result>>
       ELSE /\ weight_range' = MaxAbs(char_weights)
            /\ result' = [kind |-> "markup",
                           nodes |-> [p \in 1..Len(doc) |->
                               _colorize(doc[p], char_weights[p], MaxAbs(char_weights))]]
            /\ pc' = "done"
            /\ UNCHANGED error
    /\ UNCHANGED <<call, doc, analyzer, weighted_spans, preserve_density,
                   char_weights, feature_counts, k, weight, ws, pos_neg, targets,
                   feature, fweight, hl_spaces>>

----------------------------------------------------------------------------
(* _remaining_weight_color *)

\* min(values, key=abs) and max(values, key=...): Python keeps the first
\* element and replaces it only by one whose key is strictly smaller / larger.
\* Both operators return the index of the element chosen.  The _last variants
\* replace on an equal key too, and so keep the last of several equal elements.
RECURSIVE MinAbsFrom_last(_, _, _)
MinAbsFrom_last(vals, i, best) ==
    IF i > Len(vals) THEN best
    ELSE MinAbsFrom_last(vals, i + 1,
                         IF LeQ(AbsQ(vals[i]), AbsQ(vals[best])) THEN i ELSE best)

RECURSIVE MinAbsFrom(_, _, _)
MinAbsFrom(vals, i, best) ==
    IF i > Len(vals) THEN best
    ELSE MinAbsFrom(vals, i + 1,
                    IF LtQ(AbsQ(vals[i]), AbsQ(vals[best])) THEN i ELSE best)

RECURSIVE MaxFrom_last(_, _, _)
MaxFrom_last(vals, i, best) ==
    IF i > Len(vals) THEN best
    ELSE MaxFrom_last(vals, i + 1, IF LeQ(vals[best], vals[i]) THEN i ELSE best)

RECURSIVE MaxFrom(_, _, _)
MaxFrom(vals, i, best) ==
    IF i > Len(vals) THEN best
    ELSE MaxFrom(vals, i + 1, IF LtQ(vals[best], vals[i]) THEN i ELSE best)

\* lines 175-182: the (weight, weight_range) pair handed to _weight_color
RemainingArgs(wl, wr, pn) ==
    LET sign == IF pn = "pos" THEN 1 ELSE -1
    IN  IF wl = <<>> /\ wr = Zero THEN <<Q(sign), Q(1)>>
        ELSE IF wl = <<>> THEN <<MulQ(Q(sign), wr), wr>>
        ELSE LET coefs == [i \in DOMAIN wl |-> wl[i][2]]
             IN  <<coefs[MinAbsFrom(coefs, 2, 1)], wr>>

\* line 183.  A zero weight_range makes abs(weight) / weight_range a division
\* by zero: ZeroDivisionError for Python numbers, nan or inf for numpy floats.
RemainingWeightColor ==
    /\ call = "_remaining_weight_color"
    /\ pc = "call"
    /\ LET args == RemainingArgs(ws, weight_range, pos_neg)
           color == [kind |-> "color",
                     value |-> _weight_color(args[1], args[2], <<4, 5>>),
                     args |-> args]
       IN  \/ /\ args[2] # Zero
              /\ result' = color
              /\ pc' = "done"
              /\ UNCHANGED error
           \/ /\ args[2] = Zero
              /\ result' = color
              /\ pc' = "done"
              /\ UNCHANGED error
           \/ /\ args[2] = Zero
              /\ error' = "ZeroDivisionError"
              /\ pc' = "raised"
              /\ UNCHANGED result
    /\ UNCHANGED <<call, doc, analyzer, weighted_spans, preserve_density,
                   char_weights, feature_counts, k, weight, weight_range, ws,
                   pos_neg, targets, feature, fweight, hl_spaces>>

----------------------------------------------------------------------------
(* _get_top_target *)

\* a missing (None) probability or score
NoneQ == <<>>

\* lines 248-251; max() of an empty list raises ValueError; falling off the
\* end of the function returns None
GetTopTarget ==
    /\ call = "_get_top_target"
    /\ pc = "call"
    /\ LET probas == [i \in DOMAIN targets |-> targets[i].proba]
           scores == [i \in DOMAIN targets |-> targets[i].score]
       IN  IF \A i \in DOMAIN targets : probas[i] # NoneQ
           THEN IF targets = <<>>
                THEN error' = "ValueError" /\ pc' = "raised" /\ UNCHANGED result
                ELSE /\ result' = [kind |-> "target", index |-> MaxFrom(probas, 2, 1)]
                     /\ pc' = "done"
                     /\ UNCHANGED error
           ELSE IF \A i \in DOMAIN targets : scores[i] # NoneQ
           THEN /\ result' = [kind |-> "target", index |-> MaxFrom(scores, 2, 1)]
                /\ pc' = "done"
                /\ UNCHANGED error
           ELSE /\ result' = [kind |-> "None"]
                /\ pc' = "done"
                /\ UNCHANGED error
    /\ UNCHANGED <<call, doc, analyzer, weighted_spans, preserve_density,
                   char_weights, feature_counts, k, weight, weight_range, ws,
                   pos_neg, targets, feature, fweight, hl_spaces>>

----------------------------------------------------------------------------
(* Feature label formatter.  Markup is a sequence of nodes: text nodes,      *)
(* <span> elements and the ready-made markup of a FormattedFeatureName.      *)

TextNode(t) == [kind |-> "text", text |-> t]

Emsp == <<"&", "e", "m", "s", "p", ";">>
Hellip == <<"&", "h", "e", "l", "l", "i", "p", ";">>

RECURSIVE Repeat(_, _)
Repeat(t, n) == IF n <= 0 THEN <<>> ELSE t \o Repeat(t, n - 1)

\* lines 219-230: the marker that stands for a run of n_spaces spaces
replacer(n_spaces, side, w) ==
    LET m == "0.1em"
        margins == CASE side = "left" -> <<m, "0">>
                     [] side = "right" -> <<"0", m>>
                     [] OTHER -> <<m, m>>
    IN  [kind |-> "span",
         style |-> << <<"background-color",
                        [hue |-> _hue(w), saturation |-> 80, lightness |-> 70]>>,
                      <<"margin", <<"0", margins[1], "0", margins[2]>> >> >>,
         attrs |-> << <<"title",
                        [text |-> IF n_spaces = 1 THEN "A space symbol"
                                  ELSE "{} space symbols",
                         n |-> n_spaces]>> >>,
         body |-> Repeat(Emsp, n_spaces)]

\* the last position of the run of spaces (space = TRUE) or of other
\* characters (space = FALSE) that starts at position i
RECURSIVE RunEnd(_, _, _)
RunEnd(t, i, space) ==
    IF i < Len(t) /\ ((t[i + 1] = " ") = space) THEN RunEnd(t, i + 1, space) ELSE i

\* replace_spaces(s, replacer) from position i on: every maximal run of
\* spaces becomes replacer(length, side); side is left for a run at the start
\* of s, right for a run at its end, center otherwise
RECURSIVE replace_spaces(_, _, _)
replace_spaces(t, i, w) ==
    IF i > Len(t) THEN <<>>
    ELSE LET space == (t[i] = " ")
             e == RunEnd(t, i, space)
             side == IF i = 1 THEN "left" ELSE IF e = Len(t) THEN "right" ELSE "center"
         IN  (IF space THEN <<replacer(e - i + 1, side, w)>>
              ELSE <<TextNode(SubSeq(t, i, e))>>) \o replace_spaces(t, e + 1, w)

\* the text format_signed puts before the name of a candidate
SignPrefix(f) == IF f.sign > 0 THEN <<>> ELSE <<"-">>

\* lines 214-232
_format_single_feature(name, w, hl) ==
    LET escaped == html_escape(name)
    IN  IF ~hl THEN <<TextNode(escaped)>> ELSE replace_spaces(escaped, 1, w)

\* '\n'.join(texts)
RECURSIVE Join(_)
Join(texts) ==
    IF texts = <<>> THEN <<>>
    ELSE IF Len(texts) = 1 THEN texts[1]
    ELSE texts[1] \o <<"\n">> \o Join(Tail(texts))

\* lines 186-199
_format_unhashed_feature(cands, w, hl) ==
    IF cands = <<>> THEN <<>>
    ELSE LET first == cands[1]
             rest == Tail(cands)
             html == <<TextNode(SignPrefix(first))>>
                         \o _format_single_feature(first.name, w, hl)
         IN  IF rest # <<>>
             THEN html \o
                  <<TextNode(<<" ">>),
                    [kind |-> "span",
                     style |-> <<>>,
                     attrs |-> << <<"title",
                         Join([i \in DOMAIN rest |->
                                  html_escape(SignPrefix(rest[i]) \o rest[i].name)])>> >>,
                     body |-> Hellip]>>
             ELSE html

\* lines 202-211; a FormattedFeatureName renders itself (feature.format())
_format_feature(f, w, hl) ==
    IF f.kind = "formatted" THEN <<[kind |-> "raw", text |-> f.value]>>
    ELSE IF f.kind = "list" THEN _format_unhashed_feature(f.value, w, hl)
    ELSE _format_single_feature(f.value, w, hl)

FormatFeature ==
    /\ call = "_format_feature"
    /\ pc = "call"
    /\ result' = [kind |-> "markup", nodes |-> _format_feature(feature, fweight, hl_spaces)]
    /\ pc' = "done"
    /\ UNCHANGED <<call, doc, analyzer, weighted_spans, preserve_density,
                   char_weights, feature_counts, k, weight, weight_range, ws,
                   pos_neg, targets, feature, fweight, hl_spaces, error>>

----------------------------------------------------------------------------

NoFeature == [kind |-> "str", value |-> <<>>]

SeqsUpTo(S, m) == UNION {SeqsOfLen(S, l) : l \in 0..m}

Coefs == {Q(-1), Zero, Q(1), Q(2)}
RangeValues == {Zero, Q(1), Q(2)}

NameChars == {"a", " ", "<", ">", "&", "\""}
CandChars == {"b", "<", "\""}

FeatureInputs ==
    {[kind |-> "str", value |-> t] : t \in SeqsUpTo(NameChars, MaxNameLen)}
    \cup {[kind |-> "list", value |-> c] :
             c \in SeqsUpTo([name : SeqsOfLen(CandChars, 1), sign : {1, -1}], MaxCands)}
    \cup {[kind |-> "formatted", value |-> <<"<", "B", "I", "A", "S", ">">>]}

Probas == {NoneQ, <<3, 10>>, <<9, 10>>}
Scores == {NoneQ, Q(-1), Q(2)}

InitRender ==
    /\ call = "render_weighted_spans"
    /\ pc = "call"
    /\ \E n \in 0..MaxDocLen :
          /\ doc = DocOfLen(n)
          /\ weighted_spans \in SpanLists(n, MaxSize)
    /\ \E d \in DensityInputs : preserve_density = d[1] /\ analyzer = d[2]
    /\ char_weights = <<>>
    /\ feature_counts = <<>>
    /\ k = 0
    /\ weight = Zero
    /\ weight_range = Zero
    /\ ws = <<>>
    /\ pos_neg = "pos"
    /\ targets = <<>>
    /\ feature = NoFeature
    /\ fweight = Zero
    /\ hl_spaces = FALSE
    /\ result = [kind |-> "None"]
    /\ error = "none"

\* the variables a call other than render_weighted_spans does not use
RenderIdle ==
    /\ doc = <<>>
    /\ analyzer = WordAnalyzer
    /\ weighted_spans = <<>>
    /\ preserve_density = None
    /\ char_weights = <<>>
    /\ feature_counts = <<>>
    /\ k = 0
    /\ weight = Zero

InitRemaining ==
    /\ call = "_remaining_weight_color"
    /\ pc = "call"
    /\ RenderIdle
    /\ ws \in SeqsUpTo({"x"} \X Coefs, MaxWs)
    /\ weight_range \in RangeValues
    \* weight_range is the largest absolute weight of the table ws is taken from
    /\ \A i \in DOMAIN ws : LeQ(AbsQ(ws[i][2]), weight_range)
    /\ pos_neg \in {"pos", "neg"}
    /\ targets = <<>>
    /\ feature = NoFeature
    /\ fweight = Zero
    /\ hl_spaces = FALSE
    /\ result = [kind |-> "None"]
    /\ error = "none"

InitTopTarget ==
    /\ call = "_get_top_target"
    /\ pc = "call"
    /\ RenderIdle
    /\ weight_range = Zero
    /\ ws = <<>>
    /\ pos_neg = "pos"
    /\ targets \in SeqsUpTo([proba : Probas, score : Scores], MaxTargets)
    /\ feature = NoFeature
    /\ fweight = Zero
    /\ hl_spaces = FALSE
    /\ result = [kind |-> "None"]
    /\ error = "none"

InitFormatFeature ==
    /\ call = "_format_feature"
    /\ pc = "call"
    /\ RenderIdle
    /\ weight_range = Zero
    /\ ws = <<>>
    /\ pos_neg = "pos"
    /\ targets = <<>>
    /\ feature \in FeatureInputs
    /\ fweight \in {Q(-1), Q(2)}
    /\ hl_spaces \in BOOLEAN
    /\ result = [kind |-> "None"]
    /\ error = "none"

Init == InitRender \/ InitRemaining \/ InitTopTarget \/ InitFormatFeature

Next == RenderBegin \/ RenderRange \/ RenderReturn \/ RemainingWeightColor
            \/ GetTopTarget \/ FormatFeature

Spec == Init /\ [][Next]_vars

----------------------------------------------------------------------------
(* Properties of the span weight accumulator *)

InRender == call = "render_weighted_spans"

\* the weight every position of range j of weighted span i is to receive by
\* the documented rule: the span's declared weight, divided by the range's
\* length when density is preserved, divided by the number of weighted spans
\* that carry the span's feature
DeclaredShare(i, j) ==
    LET sp == weighted_spans[i]
        len == sp[2][j][2] - sp[2][j][1]
        count == Cardinality({n \in DOMAIN weighted_spans : weighted_spans[n][1] = sp[1]})
        w == IF preserve_density = PyTrue THEN DivInt(sp[3], len) ELSE sp[3]
    IN  DivInt(w, count)

RECURSIVE SumShares(_, _, _)
SumShares(its, n, p) ==
    IF n = 0 THEN Zero
    ELSE LET r == weighted_spans[its[n][1]][2][its[n][2]]
             rest == SumShares(its, n - 1, p)
         IN  IF r[1] < p /\ p <= r[2]
             THEN AddQ(rest, DeclaredShare(its[n][1], its[n][2]))
             ELSE rest

\* C1: after every execution of the loop body, char_weights is the
\* position-wise sum of the declared shares of the ranges handled so far:
\* each range contributes span.weight (/ (end - start)) / feature_count,
\* whatever the other ranges of its span.
C1_SharesFromDeclaredWeight ==
    (InRender /\ pc # "call") =>
        char_weights = [p \in 1..Len(doc) |->
                           SumShares(Iterations(weighted_spans, 1), k, p)]

RECURSIVE SumSlice(_, _, _)
SumSlice(cw, start, end) ==
    IF start >= end THEN Zero ELSE AddQ(cw[start + 1], SumSlice(cw, start + 1, end))

Overlap(r1, r2) == r1[1] < r2[2] /\ r2[1] < r1[2]

\* range j of span i shares no position with any other range of the set
Alone(i, j) ==
    \A n \in DOMAIN weighted_spans : \A m \in DOMAIN weighted_spans[n][2] :
        <<n, m>> # <<i, j>> =>
            ~Overlap(weighted_spans[i][2][j], weighted_spans[n][2][m])

\* C2: mass conservation.  With density preserved, the accumulated weights
\* over a range that no other range overlaps add up to the span's declared
\* weight divided by the number of weighted spans with its feature.
C2_MassConservation ==
    (InRender /\ pc = "done" /\ preserve_density = PyTrue) =>
        \A i \in DOMAIN weighted_spans : \A j \in DOMAIN weighted_spans[i][2] :
            Alone(i, j) =>
                SumSlice(char_weights, weighted_spans[i][2][j][1],
                         weighted_spans[i][2][j][2])
                    = DivInt(weighted_spans[i][3],
                             Cardinality({n \in DOMAIN weighted_spans :
                                 weighted_spans[n][1] = weighted_spans[i][1]}))

----------------------------------------------------------------------------
(* Properties of the rendered fragments *)

StyleNames(node) == {node.style[n][1] : n \in DOMAIN node.style}

StyleValue(node, name) ==
    node.style[CHOOSE n \in DOMAIN node.style : node.style[n][1] = name][2]

\* C5: render_weighted_spans is safe on degenerate input: it ends without an
\* exception (also for an empty document) and no fragment's opacity or
\* colour comes from a division by a zero weight_range.
C5_DegenerateInputSafe ==
    InRender =>
        /\ error = "none"
        /\ pc = "done" =>
              \A p \in DOMAIN result.nodes :
                  /\ StyleValue(result.nodes[p], "opacity").kind = "num"
                  /\ "background-color" \in StyleNames(result.nodes[p]) =>
                         StyleValue(result.nodes[p], "background-color").rel.kind = "num"

\* C7: when some character has a non-zero accumulated weight, every opacity
\* emitted is a number within [0.80, 1.00]; it is 0.80 for a character of
\* weight zero and 1.00 for a character of maximum magnitude.
C7_OpacityBounds ==
    (InRender /\ pc = "done" /\ \E p \in DOMAIN char_weights : char_weights[p] # Zero) =>
        \A p \in DOMAIN result.nodes :
            LET opacity == StyleValue(result.nodes[p], "opacity")
            IN  /\ opacity.kind = "num"
                /\ 80 <= opacity.val /\ opacity.val <= 100
                /\ char_weights[p] = Zero => opacity.val = 80
                /\ (\A q \in DOMAIN char_weights :
                        LeQ(AbsQ(char_weights[q]), AbsQ(char_weights[p])))
                       => opacity.val = 100

C7_Witness ==
    /\ InRender /\ pc = "done"
    /\ Len(doc) = 2
    /\ char_weights[1] = Zero
    /\ LtQ(char_weights[2], Zero)
    /\ StyleValue(result.nodes[1], "opacity").val = 80
    /\ StyleValue(result.nodes[2], "opacity").val = 100

\* the text an escaped text stands for
RECURSIVE Unescape(_)
Unescape(t) ==
    LET starts(e) == Len(t) >= Len(e) /\ SubSeq(t, 1, Len(e)) = e
        after(e) == SubSeq(t, Len(e) + 1, Len(t))
    IN  IF t = <<>> THEN <<>>
        ELSE IF starts(Amp) THEN <<"&">> \o Unescape(after(Amp))
        ELSE IF starts(Lt) THEN <<"<">> \o Unescape(after(Lt))
        ELSE IF starts(Gt) THEN <<">">> \o Unescape(after(Gt))
        ELSE IF starts(Quot) THEN <<"\"">> \o Unescape(after(Quot))
        ELSE <<Head(t)>> \o Unescape(Tail(t))

\* abs(w) <= 1e-8, that is n * 10^8 <= d for w = n / d
WithinTolerance(w) == Abs(w[1]) <= w[2] \div ATolInv

\* C9: one fragment per document character, in document order; a character
\* whose weight is within the zero tolerance gets an opacity and nothing
\* else, every other character a background colour of hue 120 (positive
\* weight) or 0 (negative weight), an opacity and a title with the weight.
C9_OneFragmentPerCharacter ==
    (InRender /\ pc = "done") =>
        /\ Len(result.nodes) = Len(doc)
        /\ \A p \in DOMAIN doc :
              LET node == result.nodes[p]
                  w == char_weights[p]
              IN  /\ node.kind = "span"
                  /\ Unescape(node.token) = <<doc[p]>>
                  /\ WithinTolerance(w) =>
                        /\ StyleNames(node) = {"opacity"}
                        /\ Len(node.style) = 1
                        /\ node.attrs = <<>>
                  /\ ~WithinTolerance(w) =>
                        /\ StyleNames(node) = {"background-color", "opacity"}
                        /\ Len(node.style) = 2
                        /\ StyleValue(node, "background-color").hue =
                               (IF LtQ(Zero, w) THEN 120 ELSE 0)
                        /\ Len(node.attrs) = 1
                        /\ node.attrs[1][1] = "title"
                        /\ node.attrs[1][2] = RoundScaled(w, 1000)

\* the scenario of the specification: document of two characters, one span
\* of feature f over (0, 1) with weight 2.0, density not preserved
C9_Witness ==
    /\ InRender /\ pc = "done"
    /\ Len(doc) = 2
    /\ weighted_spans = << <<"f", << <<0, 1>> >>, Q(2)>> >>
    /\ preserve_density = PyFalse
    /\ char_weights = <<Q(2), Zero>>
    /\ StyleNames(result.nodes[1]) = {"background-color", "opacity"}
    /\ StyleValue(result.nodes[1], "background-color").hue = 120
    /\ result.nodes[1].attrs = << <<"title", 2000>> >>
    /\ StyleNames(result.nodes[2]) = {"opacity"}

----------------------------------------------------------------------------
(* Properties of _get_top_target *)

InTopTarget == call = "_get_top_target"

AllProbas == \A i \in DOMAIN targets : targets[i].proba # NoneQ
AllScores == \A i \in DOMAIN targets : targets[i].score # NoneQ

\* i is the first target whose key is the maximum of the keys
FirstMaximum(keys, i) ==
    /\ i \in DOMAIN keys
    /\ \A n \in DOMAIN keys : LeQ(keys[n], keys[i])
    /\ \A n \in 1..(i - 1) : LtQ(keys[n], keys[i])

\* C3: on a non-empty list, _get_top_target returns the first target of
\* maximum probability when every probability is present (whether or not the
\* scores are), and otherwise the first target of maximum score when every
\* score is present.
C3_FirstMaximumByProbaThenScore ==
    (InTopTarget /\ pc # "call" /\ targets # <<>>) =>
        /\ AllProbas =>
              /\ pc = "done" /\ result.kind = "target"
              /\ FirstMaximum([i \in DOMAIN targets |-> targets[i].proba], result.index)
        /\ (~AllProbas /\ AllScores) =>
              /\ pc = "done" /\ result.kind = "target"
              /\ FirstMaximum([i \in DOMAIN targets |-> targets[i].score], result.index)

\* probabilities [0.3, 0.9, 0.9], every score present and largest on the
\* first target: the second target is returned
C3_Witness ==
    /\ InTopTarget /\ pc = "done"
    /\ Len(targets) = 3
    /\ targets[1] = [proba |-> <<3, 10>>, score |-> Q(2)]
    /\ targets[2].proba = <<9, 10>> /\ targets[2].score = Q(-1)
    /\ targets[3].proba = <<9, 10>> /\ targets[3].score = Q(-1)
    /\ result.kind = "target" /\ result.index = 2

\* C10: _get_top_target is total: for every list of targets it ends without
\* an exception and returns a member of the list or None, None when neither
\* all probabilities nor all scores are present.
C10_Total ==
    (InTopTarget /\ pc # "call") =>
        /\ error = "none"
        /\ pc = "done"
        /\ result.kind = "target" => result.index \in DOMAIN targets
        /\ (~AllProbas /\ ~AllScores) => result.kind = "None"

----------------------------------------------------------------------------
(* Properties of _remaining_weight_color *)

InRemaining == call = "_remaining_weight_color"

Sign == IF pos_neg = "pos" THEN 1 ELSE -1

\* i is the first entry of ws of smallest absolute value
FirstSmallest(i) ==
    /\ i \in DOMAIN ws
    /\ \A n \in DOMAIN ws : LeQ(AbsQ(ws[i][2]), AbsQ(ws[n][2]))
    /\ \A n \in 1..(i - 1) : LtQ(AbsQ(ws[i][2]), AbsQ(ws[n][2]))

C8_RangePassedIsPositive ==
    (InRemaining /\ pc # "call") =>
        /\ error = "none"
        /\ LtQ(Zero, result.args[2])
        /\ result.value.rel.kind = "num"

----------------------------------------------------------------------------
(* Escaping *)

\* an escaped text: none of <, > and the double quote, and every & opens one
\* of the four entities html_escape writes
WellEscaped(t) ==
    \A i \in DOMAIN t :
        /\ t[i] \notin {"<", ">", "\""}
        /\ t[i] = "&" =>
              \E e \in {Amp, Lt, Gt, Quot} :
                  /\ i + Len(e) - 1 <= Len(t)
                  /\ SubSeq(t, i, i + Len(e) - 1) = e

\* the concatenation of the text nodes of a markup
RECURSIVE TextOf(_)
TextOf(nodes) ==
    IF nodes = <<>> THEN <<>>
    ELSE (IF Head(nodes).kind = "text" THEN Head(nodes).text ELSE <<>>)
             \o TextOf(Tail(nodes))

RECURSIVE WithoutSpaces(_)
WithoutSpaces(t) ==
    IF t = <<>> THEN <<>>
    ELSE (IF Head(t) = " " THEN <<>> ELSE <<Head(t)>>) \o WithoutSpaces(Tail(t))

\* C6: no <, >, & or double quote of a document or of a feature name reaches
\* the markup unescaped: every token of the rendered document, every text
\* between the tags of a formatted feature and every title listing further
\* candidates is an escaped text that stands for the input it came from, and
\* the space markers are inserted as tags, after the escaping.
C6_InputIsEscaped ==
    /\ (InRender /\ pc = "done") =>
          \A p \in DOMAIN result.nodes :
              /\ WellEscaped(result.nodes[p].token)
              /\ Unescape(result.nodes[p].token) = <<doc[p]>>
    /\ (call = "_format_feature" /\ pc = "done" /\ feature.kind # "formatted") =>
          /\ \A n \in DOMAIN result.nodes :
                LET node == result.nodes[n]
                IN  /\ node.kind \in {"text", "span"}
                    /\ node.kind = "text" => WellEscaped(node.text)
                    /\ (node.kind = "span" /\ node.body = Hellip) =>
                           /\ WellEscaped(node.attrs[1][2])
                           /\ Unescape(node.attrs[1][2]) =
                                  Join([c \in 1..(Len(feature.value) - 1) |->
                                           SignPrefix(feature.value[c + 1])
                                               \o feature.value[c + 1].name])
                    /\ (node.kind = "span" /\ node.body # Hellip) =>
                           /\ hl_spaces
                           /\ node.body = Repeat(Emsp, node.attrs[1][2].n)
          /\ feature.kind = "str" =>
                /\ Unescape(TextOf(result.nodes)) =
                       (IF hl_spaces THEN WithoutSpaces(feature.value) ELSE feature.value)
                /\ (hl_spaces /\ \E i \in DOMAIN feature.value : feature.value[i] = " ")
                       => \E n \in DOMAIN result.nodes : result.nodes[n].kind = "span"

\* a feature name made of a quote and a space, with the spaces highlighted
C6_Witness ==
    /\ call = "_format_feature" /\ pc = "done"
    /\ feature = [kind |-> "str", value |-> <<"\"", " ">>]
    /\ hl_spaces
    /\ result.nodes[1] = TextNode(Quot)
    /\ result.nodes[2].kind = "span"

====
